---- MODULE Spec2Model ----
(***************************************************************************)
(* Model of the go-jira resource clients: BoardService (board.go),         *)
(* UserService (user.go) and WebhookService (webhook.go).                  *)
(*                                                                         *)
(* A Go string is a sequence of tokens: a word of letters and a literal    *)
(* path segment are one token each, every digit and every character with   *)
(* a meaning in a URL (? # & = + space) is a token of its own.             *)
(* fmt.Sprintf("...%s...", x) is the concatenation of the literal's tokens *)
(* with the tokens of x.  A pointer is an address into heap (0 is nil).    *)
(***************************************************************************)
EXTENDS Integers, Sequences, FiniteSets, TLC

VARIABLES pc, op, args, heap, built, sent, dox, ret

vars == <<pc, op, args, heap, built, sent, dox, ret>>

\* ------------------------------------------------------------------ bounds
\* longest values / issues array of a response body
MaxLen == 2
\* largest small integer a caller passes (board id, startAt, maxResults)
MaxInt == 2

\* ----------------------------------------------------------------- strings
Digits == <<"0", "1", "2", "3", "4", "5", "6", "7", "8", "9">>

RECURSIVE NatToStr(_)
NatToStr(n) ==
    IF n < 10 THEN <<Digits[n + 1]>>
    ELSE NatToStr(n \div 10) \o <<Digits[(n % 10) + 1]>>

\* strconv.Itoa, and the %v verb of fmt.Sprintf on an int
Itoa(n) == IF n < 0 THEN <<"-">> \o NatToStr(0 - n) ELSE NatToStr(n)

\* the literal "1000"
Lit1000 == <<"1", "0", "0", "0">>

\* the characters url.QueryEscape rewrites, with what it writes for them
EscTable == [c \in {" ", "&", "=", "?", "#", "+", "/"} |->
               CASE c = " " -> "+"
                 [] c = "&" -> "%26"
                 [] c = "=" -> "%3D"
                 [] c = "?" -> "%3F"
                 [] c = "#" -> "%23"
                 [] c = "+" -> "%2B"
                 [] c = "/" -> "%2F"]

QueryEscape(s) ==
    [i \in 1..Len(s) |-> IF s[i] \in DOMAIN EscTable THEN EscTable[s[i]] ELSE s[i]]

QueryUnescape(s) ==
    [i \in 1..Len(s) |->
        IF \E c \in DOMAIN EscTable : EscTable[c] = s[i]
        THEN CHOOSE c \in DOMAIN EscTable : EscTable[c] = s[i]
        ELSE s[i]]

\* index of the first occurrence of token t in s, 0 when there is none
FirstIdx(s, t) ==
    IF \E i \in 1..Len(s) : s[i] = t
    THEN CHOOSE i \in 1..Len(s) : s[i] = t /\ \A j \in 1..(i - 1) : s[j] # t
    ELSE 0

\* the pieces of s between occurrences of the separator
RECURSIVE Split(_, _)
Split(s, sep) ==
    LET i == FirstIdx(s, sep)
    IN IF i = 0 THEN <<s>>
       ELSE <<SubSeq(s, 1, i - 1)>> \o Split(SubSeq(s, i + 1, Len(s)), sep)

\* a URL without its fragment
NoFragment(u) ==
    LET i == FirstIdx(u, "#") IN IF i = 0 THEN u ELSE SubSeq(u, 1, i - 1)

\* the path of a URL: what precedes the first "?"
UrlPath(u) ==
    LET w == NoFragment(u)
        i == FirstIdx(w, "?")
    IN IF i = 0 THEN w ELSE SubSeq(w, 1, i - 1)

\* the raw query of a URL: what follows the first "?"
RawQuery(u) ==
    LET w == NoFragment(u)
        i == FirstIdx(w, "?")
    IN IF i = 0 THEN <<>> ELSE SubSeq(w, i + 1, Len(w))

\* one "key=value" piece of a query as the pair <<key, value>>
ParsePair(p) ==
    LET i == FirstIdx(p, "=")
    IN IF i = 0 THEN <<QueryUnescape(p), <<>>>>
       ELSE <<QueryUnescape(SubSeq(p, 1, i - 1)),
              QueryUnescape(SubSeq(p, i + 1, Len(p)))>>

\* the parameters of a raw query, in order: a sequence of <<key, value>>
ParseQuery(q) ==
    LET parts == SelectSeq(Split(q, "&"), LAMBDA p : p # <<>>)
    IN [i \in 1..Len(parts) |-> ParsePair(parts[i])]

\* the values a parsed query carries under a key, in order
ParamValues(ps, k) ==
    LET hits == SelectSeq(ps, LAMBDA p : p[1] = <<k>>)
    IN [i \in 1..Len(hits) |-> hits[i][2]]

\* ------------------------------------------------------------------ errors
NoErr     == [src |-> "nil", msg |-> ""]
ErrNet    == [src |-> "transport", msg |-> "connection refused"]
Err404    == [src |-> "transport", msg |-> "404 Not Found"]
ErrBody   == [src |-> "io", msg |-> "unexpected EOF"]
ErrSyntax == [src |-> "json", msg |-> "invalid character"]
ErrURL    == [src |-> "url", msg |-> "invalid URL escape"]
ErrQuery  == [src |-> "query", msg |-> "expects struct input"]

\* fmt.Errorf(msg)
Errorf(msg) == [src |-> "fmt", msg |-> msg]

\* --------------------------------------------------------------- responses
Items == {1, 2}

SeqsUpTo(n) == UNION {[1..k -> Items] : k \in 0..n}

\* the JSON objects the service answers with
ObjectBodies ==
    {[kind |-> "object",
      obj |-> [id |-> Len(vs) + 1, name |-> <<"srv">>, values |-> vs, issues |-> is,
               total |-> Len(vs) + 10, startAt |-> Len(is) + 20, maxResults |-> 50,
               isLast |-> l]] :
       vs \in SeqsUpTo(MaxLen), is \in SeqsUpTo(MaxLen), l \in BOOLEAN}

\* the JSON arrays the service answers with
ArrayBodies ==
    {[kind |-> "array", arr |-> a] : a \in SeqsUpTo(MaxLen)}

\* a body that is not JSON
Malformed == [kind |-> "malformed"]

Bodies == ObjectBodies \cup ArrayBodies \cup {Malformed}

\* what the network does with one request
Answers ==
    {[kind |-> k, body |-> Malformed] : k \in {"neterr", "404", "readfail"}}
      \cup {[kind |-> "ok", body |-> b] : b \in Bodies}

NilResp == [status |-> 0, readable |-> FALSE, body |-> Malformed]

\* the response handle of an answer
RespOf(ans) ==
    CASE ans.kind = "neterr"   -> NilResp
      [] ans.kind = "404"      -> [status |-> 404, readable |-> TRUE, body |-> Malformed]
      [] ans.kind = "readfail" -> [status |-> 200, readable |-> FALSE, body |-> ans.body]
      [] OTHER                 -> [status |-> 200, readable |-> TRUE, body |-> ans.body]

\* ------------------------------------------------------------------ values
\* a Go slice: nil, or a (possibly empty) sequence of elements
NilSlice == [nil |-> TRUE, elems |-> <<>>]

MkSlice(s) == [nil |-> FALSE, elems |-> s]

\* the first value an operation returns: a pointer (addr, 0 for nil) or a slice
NilVal == [nil |-> TRUE, addr |-> 0, elems |-> <<>>]

PtrVal(a) == [nil |-> (a = 0), addr |-> a, elems |-> <<>>]

SliceVal(s) == [nil |-> s.nil, addr |-> 0, elems |-> s.elems]

\* new(T): the address of a fresh object
Alloc(h) == Len(h) + 1

\* the heap with the object at address a replaced
Store(h, a, v) == [h EXCEPT ![a] = v]

\* ----------------------------------------------------------------- structs
\* a struct type: the JSON key of each field, the fields that are slices, the
\* zero value, and whether its JSON form is an object or an array
BoardsListT ==
    [kind |-> "object",
     tags |-> [MaxResults |-> "maxResults", StartAt |-> "startAt", Total |-> "total",
               IsLast |-> "isLast", Values |-> "values"],
     slices |-> {"Values"},
     zero |-> [MaxResults |-> 0, StartAt |-> 0, Total |-> 0, IsLast |-> FALSE,
               Values |-> NilSlice]]

BoardT ==
    [kind |-> "object",
     tags |-> [ID |-> "id", Self |-> "self", Name |-> "name", Type |-> "type",
               FilterID |-> "filterId"],
     slices |-> {},
     zero |-> [ID |-> 0, Self |-> <<>>, Name |-> <<>>, Type |-> <<>>, FilterID |-> 0]]

sprintsResultT ==
    [kind |-> "object", tags |-> [Sprints |-> "values"], slices |-> {"Sprints"},
     zero |-> [Sprints |-> NilSlice]]

\* a faulty variant of backlogResultsT: the Backlog field read from "values"
backlogResultsValues ==
    [kind |-> "object", tags |-> [Backlog |-> "values"], slices |-> {"Backlog"},
     zero |-> [Backlog |-> NilSlice]]

backlogResultsT ==
    [kind |-> "object", tags |-> [Backlog |-> "issues"], slices |-> {"Backlog"},
     zero |-> [Backlog |-> NilSlice]]

epicResultsT ==
    [kind |-> "object", tags |-> [Epics |-> "values"], slices |-> {"Epics"},
     zero |-> [Epics |-> NilSlice]]

BoardConfigurationT ==
    [kind |-> "object",
     tags |-> [ID |-> "id", Name |-> "name", Self |-> "self", Filter |-> "filter",
               ColumnConfig |-> "columnConfig", Estimation |-> "estimation",
               Ranking |-> "ranking"],
     slices |-> {},
     zero |-> [ID |-> 0, Name |-> <<>>, Self |-> <<>>, Filter |-> <<>>,
               ColumnConfig |-> <<>>, Estimation |-> <<>>, Ranking |-> 0]]

\* Password carries the tag "-": it is neither encoded nor decoded
UserT ==
    [kind |-> "object",
     tags |-> [Self |-> "self", Name |-> "name", Key |-> "key",
               EmailAddress |-> "emailAddress", DisplayName |-> "displayName",
               Active |-> "active", TimeZone |-> "timeZone"],
     slices |-> {},
     zero |-> [Self |-> <<>>, Name |-> <<>>, Password |-> <<>>, Key |-> <<>>,
               EmailAddress |-> <<>>, DisplayName |-> <<>>, Active |-> FALSE,
               TimeZone |-> <<>>]]

WebhookT ==
    [kind |-> "object",
     tags |-> [Name |-> "name", Url |-> "url", Events |-> "events",
               JqlFilter |-> "jqlFilter", ExcludeIssueDetails |-> "excludeIssueDetails"],
     slices |-> {"Events"},
     zero |-> [Name |-> <<>>, Url |-> <<>>, Events |-> NilSlice, JqlFilter |-> <<>>,
               ExcludeIssueDetails |-> FALSE]]

\* []User and []Webhook: make([]T, 0)
SliceT == [kind |-> "array", tags |-> <<>>, slices |-> {}, zero |-> MkSlice(<<>>)]

\* ------------------------------------------------------------------- codec
\* json.Unmarshal(data, &cur) for a target of type t: the error and the target
JsonUnmarshal(body, t, cur) ==
    IF body.kind = "malformed" THEN [err |-> ErrSyntax, val |-> cur]
    ELSE IF body.kind # t.kind THEN
        [err |-> [src |-> "json", msg |-> "cannot unmarshal"], val |-> cur]
    ELSE IF t.kind = "array" THEN [err |-> NoErr, val |-> MkSlice(body.arr)]
    ELSE [err |-> NoErr,
          val |-> [f \in DOMAIN cur |->
                     IF f \in DOMAIN t.tags /\ t.tags[f] \in DOMAIN body.obj
                     THEN IF f \in t.slices THEN MkSlice(body.obj[t.tags[f]])
                          ELSE body.obj[t.tags[f]]
                     ELSE cur[f]]]

\* the JSON form of a struct: every tagged field that is not at its zero
\* value (omitempty), under its key
JsonMarshal(v, t) ==
    LET fs == {f \in DOMAIN t.tags : v[f] # t.zero[f]}
    IN {<<t.tags[f], v[f]>> : f \in fs}

NoBody == [present |-> FALSE, json |-> {}]

\* ------------------------------------------------------------------ client
\* url.Parse rejects a path holding a bad percent escape
BadURL(u) == \E i \in 1..Len(UrlPath(u)) : UrlPath(u)[i] = "%zz"

\* Client.NewRequest(method, urlStr, body): the request, or an error
NewRequest(method, urlStr, body) ==
    IF BadURL(urlStr)
    THEN [ok |-> FALSE, err |-> ErrURL,
          req |-> [method |-> method, url |-> <<>>, body |-> NoBody]]
    ELSE [ok |-> TRUE, err |-> NoErr,
          req |-> [method |-> method, url |-> urlStr, body |-> body]]

\* Client.Do(req, v) with v the address of the decode target of type t (0 when
\* v is nil), answered by the network with ans: the response handle, the
\* error, and the heap after decoding
Do(req, v, t, h, ans) ==
    IF ans.kind = "neterr" THEN [resp |-> NilResp, err |-> ErrNet, heap |-> h]
    ELSE IF ans.kind = "404" THEN [resp |-> RespOf(ans), err |-> Err404, heap |-> h]
    ELSE IF v = 0 THEN [resp |-> RespOf(ans), err |-> NoErr, heap |-> h]
    ELSE IF ans.kind = "readfail" THEN [resp |-> RespOf(ans), err |-> ErrBody, heap |-> h]
    ELSE LET u == JsonUnmarshal(ans.body, t, h[v])
         IN [resp |-> RespOf(ans), err |-> u.err, heap |-> Store(h, v, u.val)]

\* the query parameters of a BoardListOptions record, in key order
BoardListQuery(opt) ==
    LET kv(k, val) == IF val = <<>> THEN <<>> ELSE <<<<k, val>>>>
        ps == kv("boardType", opt.BoardType) \o kv("name", opt.Name)
                \o kv("projectKeyOrId", opt.ProjectKeyOrID)
    IN IF ps = <<>> THEN <<>>
       ELSE <<"?">> \o QueryEscape(<<ps[1][1]>>) \o <<"=">> \o QueryEscape(ps[1][2])
              \o (IF Len(ps) > 1
                  THEN <<"&">> \o QueryEscape(<<ps[2][1]>>) \o <<"=">> \o QueryEscape(ps[2][2])
                  ELSE <<>>)
              \o (IF Len(ps) > 2
                  THEN <<"&">> \o QueryEscape(<<ps[3][1]>>) \o <<"=">> \o QueryEscape(ps[3][2])
                  ELSE <<>>)

\* addOptions(s, opt): s with the options as its query; a nil opt leaves s as
\* it is; when the encoding fails, s and the error
addOptions(s, opt, encFails) ==
    IF opt.nil THEN [url |-> s, err |-> NoErr]
    ELSE IF encFails THEN [url |-> s, err |-> ErrQuery]
    ELSE [url |-> s \o BoardListQuery(opt), err |-> NoErr]

\* -------------------------------------------------------------- operations
\* An operation yields what its call leaves behind: what NewRequest returned,
\* the requests handed to Client.Do, what Client.Do returned, the triple
\* returned, and the heap.
NoDo == [called |-> FALSE, resp |-> NilResp, err |-> NoErr]

DoRes(d) == [called |-> TRUE, resp |-> d.resp, err |-> d.err]

NotBuilt == [ok |-> FALSE, err |-> NoErr]

Out(h, nr, reqs, d, val, resp, err) ==
    [heap |-> h, built |-> [ok |-> nr.ok, err |-> nr.err], sent |-> reqs, dox |-> d,
     ret |-> [val |-> val, resp |-> resp, err |-> err]]

\* if err != nil { return nil, nil, err } after NewRequest
ReqFailed(h, nr) == Out(h, nr, <<>>, NoDo, NilVal, NilResp, nr.err)

GetAllBoards(h, opt, encFails, ans) ==
    LET apiEndpoint == <<"rest/agile/1.0/board">>
        ao == addOptions(apiEndpoint, opt, encFails)
        nr == NewRequest("GET", ao.url, NoBody)
    IN IF ~nr.ok THEN ReqFailed(h, nr)
       ELSE LET boards == Alloc(h)
                d == Do(nr.req, boards, BoardsListT, Append(h, BoardsListT.zero), ans)
            IN IF d.err # NoErr
               THEN Out(d.heap, nr, <<nr.req>>, DoRes(d), NilVal, d.resp, d.err)
               ELSE Out(d.heap, nr, <<nr.req>>, DoRes(d), PtrVal(boards), d.resp, d.err)

\* a faulty variant of GetBoard: the request is sent again after a failure
GetBoardRetry(h, boardID, ans) ==
    LET apiEndpoint == <<"rest/agile/1.0/board/">> \o Itoa(boardID)
        nr == NewRequest("GET", apiEndpoint, NoBody)
    IN IF ~nr.ok THEN ReqFailed(h, nr)
       ELSE LET board == Alloc(h)
                d == Do(nr.req, board, BoardT, Append(h, BoardT.zero), ans)
            IN IF d.err # NoErr
               THEN Out(d.heap, nr, <<nr.req, nr.req>>, DoRes(d), NilVal, d.resp, d.err)
               ELSE Out(d.heap, nr, <<nr.req>>, DoRes(d), PtrVal(board), d.resp, NoErr)

GetBoard(h, boardID, ans) ==
    LET apiEndpoint == <<"rest/agile/1.0/board/">> \o Itoa(boardID)
        nr == NewRequest("GET", apiEndpoint, NoBody)
    IN IF ~nr.ok THEN ReqFailed(h, nr)
       ELSE LET board == Alloc(h)
                d == Do(nr.req, board, BoardT, Append(h, BoardT.zero), ans)
            IN IF d.err # NoErr
               THEN Out(d.heap, nr, <<nr.req>>, DoRes(d), NilVal, d.resp, d.err)
               ELSE Out(d.heap, nr, <<nr.req>>, DoRes(d), PtrVal(board), d.resp, NoErr)

\* a faulty variant of CreateBoard: the response is decoded into the input
\* record, which is returned
CreateBoardInPlace(h, board, ans) ==
    LET apiEndpoint == <<"rest/agile/1.0/board">>
        nr == NewRequest("POST", apiEndpoint,
                         [present |-> TRUE, json |-> JsonMarshal(h[board], BoardT)])
    IN IF ~nr.ok THEN ReqFailed(h, nr)
       ELSE LET d == Do(nr.req, board, BoardT, h, ans)
            IN IF d.err # NoErr
               THEN Out(d.heap, nr, <<nr.req>>, DoRes(d), NilVal, d.resp, d.err)
               ELSE Out(d.heap, nr, <<nr.req>>, DoRes(d), PtrVal(board), d.resp, NoErr)

CreateBoard(h, board, ans) ==
    LET apiEndpoint == <<"rest/agile/1.0/board">>
        nr == NewRequest("POST", apiEndpoint,
                         [present |-> TRUE, json |-> JsonMarshal(h[board], BoardT)])
    IN IF ~nr.ok THEN ReqFailed(h, nr)
       ELSE LET responseBoard == Alloc(h)
                d == Do(nr.req, responseBoard, BoardT, Append(h, BoardT.zero), ans)
            IN IF d.err # NoErr
               THEN Out(d.heap, nr, <<nr.req>>, DoRes(d), NilVal, d.resp, d.err)
               ELSE Out(d.heap, nr, <<nr.req>>, DoRes(d), PtrVal(responseBoard), d.resp, NoErr)

GetBoardConfig(h, boardID, ans) ==
    LET apiEndpoint == <<"rest/agile/1.0/board/">> \o boardID \o <<"/configuration">>
        nr == NewRequest("GET", apiEndpoint, NoBody)
    IN IF ~nr.ok THEN ReqFailed(h, nr)
       ELSE LET result == Alloc(h)
                d == Do(nr.req, result, BoardConfigurationT,
                        Append(h, BoardConfigurationT.zero), ans)
            IN Out(d.heap, nr, <<nr.req>>, DoRes(d), PtrVal(result), d.resp, d.err)

\* a faulty variant of DeleteBoard: the response is decoded into a Board, which
\* is returned
DeleteBoardDecoding(h, boardID, ans) ==
    LET apiEndpoint == <<"rest/agile/1.0/board/">> \o Itoa(boardID)
        nr == NewRequest("DELETE", apiEndpoint, NoBody)
    IN IF ~nr.ok THEN ReqFailed(h, nr)
       ELSE LET board == Alloc(h)
                d == Do(nr.req, board, BoardT, Append(h, BoardT.zero), ans)
            IN Out(d.heap, nr, <<nr.req>>, DoRes(d), PtrVal(board), d.resp, d.err)

DeleteBoard(h, boardID, ans) ==
    LET apiEndpoint == <<"rest/agile/1.0/board/">> \o Itoa(boardID)
        nr == NewRequest("DELETE", apiEndpoint, NoBody)
    IN IF ~nr.ok THEN ReqFailed(h, nr)
       ELSE LET d == Do(nr.req, 0, BoardT, h, ans)
            IN Out(d.heap, nr, <<nr.req>>, DoRes(d), NilVal, d.resp, d.err)

GetAllSprints(h, boardID, ans) ==
    LET apiEndpoint == <<"rest/agile/1.0/board/">> \o boardID
                         \o <<"/sprint", "?", "maxResults", "=">> \o Lit1000
        nr == NewRequest("GET", apiEndpoint, NoBody)
    IN IF ~nr.ok THEN ReqFailed(h, nr)
       ELSE LET result == Alloc(h)
                d == Do(nr.req, result, sprintsResultT, Append(h, sprintsResultT.zero), ans)
            IN Out(d.heap, nr, <<nr.req>>, DoRes(d), SliceVal(d.heap[result].Sprints),
                   d.resp, d.err)

GetEpicsForBoard(h, boardID, ans) ==
    LET apiEndpoint == <<"rest/agile/1.0/board/">> \o boardID
                         \o <<"/epic", "?", "maxResults", "=">> \o Lit1000
        nr == NewRequest("GET", apiEndpoint, NoBody)
    IN IF ~nr.ok THEN ReqFailed(h, nr)
       ELSE LET result == Alloc(h)
                d == Do(nr.req, result, epicResultsT, Append(h, epicResultsT.zero), ans)
            IN Out(d.heap, nr, <<nr.req>>, DoRes(d), SliceVal(d.heap[result].Epics),
                   d.resp, d.err)

GetIssuesForBacklog(h, boardID, ans) ==
    LET apiEndpoint == <<"rest/agile/1.0/board/">> \o boardID
                         \o <<"/backlog", "?", "maxResults", "=">> \o Lit1000
        nr == NewRequest("GET", apiEndpoint, NoBody)
    IN IF ~nr.ok THEN ReqFailed(h, nr)
       ELSE LET result == Alloc(h)
                d == Do(nr.req, result, backlogResultsT, Append(h, backlogResultsT.zero), ans)
            IN Out(d.heap, nr, <<nr.req>>, DoRes(d), SliceVal(d.heap[result].Backlog),
                   d.resp, d.err)

GetIssuesForEpic(h, boardID, epicID, ans) ==
    LET apiEndpoint == <<"rest/agile/1.0/board/">> \o boardID \o <<"/epic/">> \o epicID
                         \o <<"/issue", "?", "maxResults", "=">> \o Lit1000
        nr == NewRequest("GET", apiEndpoint, NoBody)
    IN IF ~nr.ok THEN ReqFailed(h, nr)
       ELSE LET result == Alloc(h)
                d == Do(nr.req, result, backlogResultsT, Append(h, backlogResultsT.zero), ans)
            IN Out(d.heap, nr, <<nr.req>>, DoRes(d), SliceVal(d.heap[result].Backlog),
                   d.resp, d.err)

GetIssuesWithoutEpic(h, boardID, ans) ==
    LET apiEndpoint == <<"rest/agile/1.0/board/">> \o boardID
                         \o <<"/epic/none/issue", "?", "maxResults", "=">> \o Lit1000
        nr == NewRequest("GET", apiEndpoint, NoBody)
    IN IF ~nr.ok THEN ReqFailed(h, nr)
       ELSE LET result == Alloc(h)
                d == Do(nr.req, result, backlogResultsT, Append(h, backlogResultsT.zero), ans)
            IN Out(d.heap, nr, <<nr.req>>, DoRes(d), SliceVal(d.heap[result].Backlog),
                   d.resp, d.err)

\* a faulty variant of UserGet: the error of Client.Do is wrapped
UserGetWrapped(h, username, ans) ==
    LET apiEndpoint == <<"/rest/api/2/user", "?", "username", "=">> \o username
        nr == NewRequest("GET", apiEndpoint, NoBody)
    IN IF ~nr.ok THEN ReqFailed(h, nr)
       ELSE LET user == Alloc(h)
                d == Do(nr.req, user, UserT, Append(h, UserT.zero), ans)
            IN IF d.err # NoErr
               THEN Out(d.heap, nr, <<nr.req>>, DoRes(d), NilVal, d.resp,
                        Errorf("Could not get the user"))
               ELSE Out(d.heap, nr, <<nr.req>>, DoRes(d), PtrVal(user), d.resp, NoErr)

UserGet(h, username, ans) ==
    LET apiEndpoint == <<"/rest/api/2/user", "?", "username", "=">> \o username
        nr == NewRequest("GET", apiEndpoint, NoBody)
    IN IF ~nr.ok THEN ReqFailed(h, nr)
       ELSE LET user == Alloc(h)
                d == Do(nr.req, user, UserT, Append(h, UserT.zero), ans)
            IN IF d.err # NoErr
               THEN Out(d.heap, nr, <<nr.req>>, DoRes(d), NilVal, d.resp, d.err)
               ELSE Out(d.heap, nr, <<nr.req>>, DoRes(d), PtrVal(user), d.resp, NoErr)

Myself(h, ans) ==
    LET nr == NewRequest("GET", <<"/rest/api/2/myself">>, NoBody)
    IN IF ~nr.ok THEN ReqFailed(h, nr)
       ELSE LET user == Alloc(h)
                d == Do(nr.req, user, UserT, Append(h, UserT.zero), ans)
            IN IF d.err # NoErr
               THEN Out(d.heap, nr, <<nr.req>>, DoRes(d), NilVal, d.resp, d.err)
               ELSE Out(d.heap, nr, <<nr.req>>, DoRes(d), PtrVal(user), d.resp, NoErr)

\* a faulty variant of ReadAndUnmarshal: one message for both failures
ReadAndUnmarshalOneMessage(h, nr, d, t) ==
    IF d.err # NoErr THEN Out(h, nr, <<nr.req>>, DoRes(d), NilVal, d.resp, d.err)
    ELSE LET target == Alloc(h)
             h1 == Append(h, t.zero)
             u == JsonUnmarshal(d.resp.body, t, h1[target])
         IN IF ~d.resp.readable \/ u.err # NoErr
            THEN Out(h1, nr, <<nr.req>>, DoRes(d), NilVal, d.resp,
                     Errorf("Could not read the returned data"))
            ELSE Out(Store(h1, target, u.val), nr, <<nr.req>>, DoRes(d),
                     PtrVal(target), d.resp, NoErr)

\* the tail shared by UserService.Create, WebhookService.Create and
\* WebhookService.GetAll once Client.Do(req, nil) has returned d: allocate the
\* target, read the body, unmarshal it
ReadAndUnmarshal(h, nr, d, t) ==
    IF d.err # NoErr THEN Out(h, nr, <<nr.req>>, DoRes(d), NilVal, d.resp, d.err)
    ELSE LET target == Alloc(h)
             h1 == Append(h, t.zero)
         IN IF ~d.resp.readable
            THEN Out(h1, nr, <<nr.req>>, DoRes(d), NilVal, d.resp,
                     Errorf("Could not read the returned data"))
            ELSE LET u == JsonUnmarshal(d.resp.body, t, h1[target])
                 IN IF u.err # NoErr
                    THEN Out(Store(h1, target, u.val), nr, <<nr.req>>, DoRes(d), NilVal, d.resp,
                             Errorf("Could not unmarshall the data into struct"))
                    ELSE Out(Store(h1, target, u.val), nr, <<nr.req>>, DoRes(d),
                             PtrVal(target), d.resp, NoErr)

UserCreate(h, user, ans) ==
    LET apiEndpoint == <<"/rest/api/2/user">>
        nr == NewRequest("POST", apiEndpoint,
                         [present |-> TRUE, json |-> JsonMarshal(h[user], UserT)])
    IN IF ~nr.ok THEN ReqFailed(h, nr)
       ELSE ReadAndUnmarshal(h, nr, Do(nr.req, 0, UserT, h, ans), UserT)

\* url.Values: v.Set(k, val)
ValuesSet(v, k, val) == [x \in (DOMAIN v) \cup {k} |-> IF x = k THEN val ELSE v[x]]

\* the keys PermissionSearch sets, in the sorted order url.Values.Encode walks
SortedKeys == <<"issueKey", "maxResults", "permissions", "projectKey", "startAt",
                "username">>

RECURSIVE JoinPairs(_, _)
JoinPairs(ks, v) ==
    IF ks = <<>> THEN <<>>
    ELSE QueryEscape(<<Head(ks)>>) \o <<"=">> \o QueryEscape(v[Head(ks)])
           \o (IF Len(ks) > 1 THEN <<"&">> \o JoinPairs(Tail(ks), v) ELSE <<>>)

\* url.Values.Encode: "k=v" pairs, escaped, joined by "&", sorted by key
Encode(v) == JoinPairs(SelectSeq(SortedKeys, LAMBDA k : k \in DOMAIN v), v)

\* a faulty variant of PermissionQuery: startAt is sent only when positive
PermissionQueryPositive(search) ==
    LET v0 == <<>>
        v1 == IF search.IssueKey # <<>> THEN ValuesSet(v0, "issueKey", search.IssueKey)
              ELSE v0
        v2 == IF search.MaxResults # 0
              THEN ValuesSet(v1, "maxResults", Itoa(search.MaxResults))
              ELSE ValuesSet(v1, "maxResults", Lit1000)
        v3 == IF search.Permissions # <<>>
              THEN ValuesSet(v2, "permissions", search.Permissions) ELSE v2
        v4 == IF search.ProjectKey # <<>>
              THEN ValuesSet(v3, "projectKey", search.ProjectKey) ELSE v3
        v5 == IF search.StartAt > 0 THEN ValuesSet(v4, "startAt", Itoa(search.StartAt))
              ELSE v4
        v6 == IF search.Username # <<>> THEN ValuesSet(v5, "username", search.Username)
              ELSE v5
    IN Encode(v6)

\* the query string PermissionSearch builds from its options
PermissionQuery(search) ==
    LET v0 == <<>>
        v1 == IF search.IssueKey # <<>> THEN ValuesSet(v0, "issueKey", search.IssueKey)
              ELSE v0
        v2 == IF search.MaxResults # 0
              THEN ValuesSet(v1, "maxResults", Itoa(search.MaxResults))
              ELSE ValuesSet(v1, "maxResults", Lit1000)
        v3 == IF search.Permissions # <<>>
              THEN ValuesSet(v2, "permissions", search.Permissions) ELSE v2
        v4 == IF search.ProjectKey # <<>>
              THEN ValuesSet(v3, "projectKey", search.ProjectKey) ELSE v3
        v5 == IF search.StartAt # 0 THEN ValuesSet(v4, "startAt", Itoa(search.StartAt))
              ELSE v4
        v6 == IF search.Username # <<>> THEN ValuesSet(v5, "username", search.Username)
              ELSE v5
    IN Encode(v6)

PermissionSearch(h, search, ans) ==
    LET query == PermissionQuery(search)
        apiEndpoint == IF query # <<>>
                       THEN <<"/rest/api/2/user/permission/search">> \o <<"?">> \o query
                       ELSE <<"/rest/api/2/user/permission/search">>
        nr == NewRequest("GET", apiEndpoint, NoBody)
    IN IF ~nr.ok THEN ReqFailed(h, nr)
       ELSE LET users == Alloc(h)
                d == Do(nr.req, users, SliceT, Append(h, SliceT.zero), ans)
            IN IF d.err # NoErr
               THEN Out(d.heap, nr, <<nr.req>>, DoRes(d), NilVal, d.resp, d.err)
               ELSE Out(d.heap, nr, <<nr.req>>, DoRes(d), PtrVal(users), d.resp, NoErr)

WebhookCreate(h, webhook, ans) ==
    LET apiEndpoint == <<"/rest/webhooks/1.0/webhook">>
        nr == NewRequest("POST", apiEndpoint,
                         [present |-> TRUE, json |-> JsonMarshal(h[webhook], WebhookT)])
    IN IF ~nr.ok THEN ReqFailed(h, nr)
       ELSE ReadAndUnmarshal(h, nr, Do(nr.req, 0, WebhookT, h, ans), WebhookT)

WebhookGetAll(h, ans) ==
    LET apiEndpoint == <<"/rest/webhooks/1.0/webhook">>
        nr == NewRequest("GET", apiEndpoint, NoBody)
    IN IF ~nr.ok THEN ReqFailed(h, nr)
       ELSE ReadAndUnmarshal(h, nr, Do(nr.req, 0, SliceT, h, ans), SliceT)

\* ------------------------------------------------------------------ inputs
\* board identifiers passed as strings: a plain one, two that carry URL
\* syntax of their own, and one with a bad percent escape
BoardIDs == {<<"1", "0">>,
             <<"1", "0", "?", "maxResults", "=", "5", "&", "x", "=">>,
             <<"1", "0", "#">>,
             <<"%zz">>}

EpicIDs == {<<"7">>, <<"7", "?", "maxResults", "=", "5", "&", "x", "=">>}

Usernames == {<<"bob">>, <<"a", "&", "b">>}

\* integers a caller passes
IntVals == (-1..MaxInt) \cup {1000}

\* option strings: unset, or set to a value with characters that need escaping
OptStrs == {<<>>, <<"a", "&", "b", "=", "c", " ", "d">>}

Searches ==
    [Username : OptStrs, Permissions : OptStrs, IssueKey : OptStrs,
     ProjectKey : OptStrs, StartAt : IntVals, MaxResults : IntVals]

NilOptions == [nil |-> TRUE, BoardType |-> <<>>, Name |-> <<>>, ProjectKeyOrID |-> <<>>]

ListOptions ==
    {NilOptions}
      \cup [nil : {FALSE}, BoardType : {<<>>, <<"scrum">>}, Name : {<<>>, <<"a", "&", "b">>},
            ProjectKeyOrID : {<<>>, <<"K">>}]

BoardInputs ==
    {[ID |-> 0, Self |-> <<>>, Name |-> n, Type |-> <<"scrum">>, FilterID |-> f] :
       n \in {<<"in">>, <<"srv">>}, f \in 0..MaxInt}

UserInputs ==
    {[Self |-> <<>>, Name |-> n, Password |-> <<"secret">>, Key |-> <<>>,
      EmailAddress |-> <<"e">>, DisplayName |-> <<>>, Active |-> a, TimeZone |-> <<>>] :
       n \in {<<"in">>, <<"srv">>}, a \in BOOLEAN}

WebhookInputs ==
    {[Name |-> n, Url |-> <<"http://h">>, Events |-> e, JqlFilter |-> <<>>,
      ExcludeIssueDetails |-> x] :
       n \in {<<"in">>, <<"srv">>}, e \in {NilSlice, MkSlice(<<"jira:issue_created">>)},
       x \in BOOLEAN}

\* ----------------------------------------------------------- state machine
NoArgs == [ans |-> [kind |-> "none", body |-> Malformed]]

Init ==
    /\ pc = "idle"
    /\ op = "none"
    /\ args = NoArgs
    /\ heap = <<>>
    /\ built = NotBuilt
    /\ sent = <<>>
    /\ dox = NoDo
    /\ ret = [val |-> NilVal, resp |-> NilResp, err |-> NoErr]

\* the caller invokes operation name with arguments a; r is what the call yields
Call(name, a, r) ==
    /\ pc' = "returned"
    /\ op' = name
    /\ args' = a
    /\ heap' = r.heap
    /\ built' = r.built
    /\ sent' = r.sent
    /\ dox' = r.dox
    /\ ret' = r.ret

CallGetAllBoards ==
    /\ pc = "idle"
    /\ \E opt \in ListOptions, encFails \in BOOLEAN, ans \in Answers :
        Call("GetAllBoards", [opt |-> opt, encFails |-> encFails, ans |-> ans],
             GetAllBoards(<<>>, opt, encFails, ans))

CallGetBoard ==
    /\ pc = "idle"
    /\ \E boardID \in IntVals, ans \in Answers :
        Call("GetBoard", [boardID |-> boardID, ans |-> ans], GetBoard(<<>>, boardID, ans))

CallCreateBoard ==
    /\ pc = "idle"
    /\ \E in \in BoardInputs, ans \in Answers :
        Call("CreateBoard", [ptr |-> 1, in |-> in, ans |-> ans],
             CreateBoard(<<in>>, 1, ans))

CallGetBoardConfig ==
    /\ pc = "idle"
    /\ \E boardID \in BoardIDs, ans \in Answers :
        Call("GetBoardConfig", [boardID |-> boardID, ans |-> ans],
             GetBoardConfig(<<>>, boardID, ans))

CallDeleteBoard ==
    /\ pc = "idle"
    /\ \E boardID \in IntVals, ans \in Answers :
        Call("DeleteBoard", [boardID |-> boardID, ans |-> ans],
             DeleteBoard(<<>>, boardID, ans))

CallGetAllSprints ==
    /\ pc = "idle"
    /\ \E boardID \in BoardIDs, ans \in Answers :
        Call("GetAllSprints", [boardID |-> boardID, ans |-> ans],
             GetAllSprints(<<>>, boardID, ans))

CallGetEpicsForBoard ==
    /\ pc = "idle"
    /\ \E boardID \in BoardIDs, ans \in Answers :
        Call("GetEpicsForBoard", [boardID |-> boardID, ans |-> ans],
             GetEpicsForBoard(<<>>, boardID, ans))

CallGetIssuesForBacklog ==
    /\ pc = "idle"
    /\ \E boardID \in BoardIDs, ans \in Answers :
        Call("GetIssuesForBacklog", [boardID |-> boardID, ans |-> ans],
             GetIssuesForBacklog(<<>>, boardID, ans))

CallGetIssuesForEpic ==
    /\ pc = "idle"
    /\ \E boardID \in BoardIDs, epicID \in EpicIDs, ans \in Answers :
        Call("GetIssuesForEpic", [boardID |-> boardID, epicID |-> epicID, ans |-> ans],
             GetIssuesForEpic(<<>>, boardID, epicID, ans))

CallGetIssuesWithoutEpic ==
    /\ pc = "idle"
    /\ \E boardID \in BoardIDs, ans \in Answers :
        Call("GetIssuesWithoutEpic", [boardID |-> boardID, ans |-> ans],
             GetIssuesWithoutEpic(<<>>, boardID, ans))

CallUserGet ==
    /\ pc = "idle"
    /\ \E username \in Usernames, ans \in Answers :
        Call("UserGet", [username |-> username, ans |-> ans], UserGet(<<>>, username, ans))

CallMyself ==
    /\ pc = "idle"
    /\ \E ans \in Answers : Call("Myself", [ans |-> ans], Myself(<<>>, ans))

CallUserCreate ==
    /\ pc = "idle"
    /\ \E in \in UserInputs, ans \in Answers :
        Call("UserCreate", [ptr |-> 1, in |-> in, ans |-> ans], UserCreate(<<in>>, 1, ans))

CallPermissionSearch ==
    /\ pc = "idle"
    /\ \E search \in Searches, ans \in Answers :
        Call("PermissionSearch", [search |-> search, ans |-> ans],
             PermissionSearch(<<>>, search, ans))

CallWebhookCreate ==
    /\ pc = "idle"
    /\ \E in \in WebhookInputs, ans \in Answers :
        Call("WebhookCreate", [ptr |-> 1, in |-> in, ans |-> ans],
             WebhookCreate(<<in>>, 1, ans))

CallWebhookGetAll ==
    /\ pc = "idle"
    /\ \E ans \in Answers : Call("WebhookGetAll", [ans |-> ans], WebhookGetAll(<<>>, ans))

\* the caller takes the returned triple; the client keeps nothing of the call
Return ==
    /\ pc = "returned"
    /\ pc' = "idle"
    /\ op' = "none"
    /\ args' = NoArgs
    /\ heap' = <<>>
    /\ built' = NotBuilt
    /\ sent' = <<>>
    /\ dox' = NoDo
    /\ ret' = [val |-> NilVal, resp |-> NilResp, err |-> NoErr]

Next ==
    \/ CallGetAllBoards
    \/ CallGetBoard
    \/ CallCreateBoard
    \/ CallGetBoardConfig
    \/ CallDeleteBoard
    \/ CallGetAllSprints
    \/ CallGetEpicsForBoard
    \/ CallGetIssuesForBacklog
    \/ CallGetIssuesForEpic
    \/ CallGetIssuesWithoutEpic
    \/ CallUserGet
    \/ CallMyself
    \/ CallUserCreate
    \/ CallPermissionSearch
    \/ CallWebhookCreate
    \/ CallWebhookGetAll
    \/ Return

Spec == Init /\ [][Next]_vars

\* ------------------------------------------------------------- properties
Done == pc = "returned"

GetOps == {"GetAllBoards", "GetBoard", "GetBoardConfig", "GetAllSprints",
           "GetEpicsForBoard", "GetIssuesForBacklog", "GetIssuesForEpic",
           "GetIssuesWithoutEpic", "UserGet", "Myself", "PermissionSearch",
           "WebhookGetAll"}

CreateOps == {"CreateBoard", "UserCreate", "WebhookCreate"}

FetchAllOps == {"GetAllSprints", "GetEpicsForBoard", "GetIssuesForBacklog",
                "GetIssuesForEpic", "GetIssuesWithoutEpic"}

\* the parameters of the query of the request the call sent
SentParams == ParseQuery(RawQuery(sent[1].url))

\* C1: every Get-style operation answered with a 404 (Client.Do returns a
\* response handle and an error) returns a nil decoded value, a non-nil
\* response handle and a non-nil error.
C1_Get404ReturnsNilValue ==
    (Done /\ op \in GetOps /\ dox.called /\ dox.resp.status = 404 /\ dox.err # NoErr)
        => (ret.val.nil /\ ret.resp # NilResp /\ ret.err # NoErr)

\* the fields of a search that are not at their zero value, as the pairs
\* <<parameter name, value>> a query carries for them
NonZeroFields(search) ==
    LET str(k, v) == IF v # <<>> THEN {<<<<k>>, v>>} ELSE {}
        int(k, n) == IF n # 0 THEN {<<<<k>>, Itoa(n)>>} ELSE {}
    IN str("username", search.Username) \cup str("permissions", search.Permissions)
         \cup str("issueKey", search.IssueKey) \cup str("projectKey", search.ProjectKey)
         \cup int("startAt", search.StartAt) \cup int("maxResults", search.MaxResults)

\* the parameters of a parsed query as a set, when no pair occurs twice
ParamSet(ps) == {ps[i] : i \in 1..Len(ps)}

\* C2, as stated: the query PermissionSearch sends holds exactly the fields
\* that differ from their zero value, each once under its declared name, and
\* no parameter for a field left at its zero value.
C2_QueryHoldsExactlyNonZeroFields ==
    (Done /\ op = "PermissionSearch" /\ Len(sent) = 1)
        => /\ ParamSet(SentParams) = NonZeroFields(args.search)
           /\ Len(SentParams) = Cardinality(NonZeroFields(args.search))

\* C2, amended: the query PermissionSearch sends holds exactly the string
\* fields that are not empty and startAt when it is not 0, each once under
\* its declared name, and always exactly one maxResults parameter: the value
\* of MaxResults when that is not 0, and 1000 when it is 0.
C2_QueryHoldsNonZeroFieldsAndMaxResults ==
    (Done /\ op = "PermissionSearch" /\ Len(sent) = 1)
        => LET expected == IF args.search.MaxResults # 0
                           THEN NonZeroFields(args.search)
                           ELSE NonZeroFields(args.search)
                                  \cup {<<<<"maxResults">>, Lit1000>>}
           IN /\ ParamSet(SentParams) = expected
              /\ Len(SentParams) = Cardinality(expected)

C2_Witness ==
    /\ Done /\ op = "PermissionSearch" /\ Len(sent) = 1
    /\ args.search.MaxResults = 0
    /\ args.search.StartAt = -1
    /\ args.search.Username # <<>>
    /\ args.search.IssueKey = <<>>
    /\ ParamValues(SentParams, "maxResults") = <<Lit1000>>
    /\ ParamValues(SentParams, "username") = <<args.search.Username>>

\* a Create operation run on input record in with the network answering ans
RunCreate(name, in, ans) ==
    CASE name = "CreateBoard" -> CreateBoard(<<in>>, 1, ans)
      [] name = "UserCreate" -> UserCreate(<<in>>, 1, ans)
      [] name = "WebhookCreate" -> WebhookCreate(<<in>>, 1, ans)

\* C3: a Create operation answered with a body that is not JSON returns a nil
\* decoded value and an error that differs from the error the same call
\* returns for a transport failure and for a body-read failure.
C3_MalformedBodyIsADistinctError ==
    (Done /\ op \in CreateOps /\ dox.called
          /\ args.ans.kind = "ok" /\ args.ans.body.kind = "malformed")
        => /\ ret.val.nil
           /\ ret.err # NoErr
           /\ \A a \in Answers :
                 a.kind \in {"neterr", "404", "readfail"}
                    => RunCreate(op, args.in, a).ret.err \notin {NoErr, ret.err}

C3_Witness ==
    /\ Done /\ op = "UserCreate" /\ dox.called
    /\ args.ans.kind = "ok" /\ args.ans.body.kind = "malformed"
    /\ ret.err = Errorf("Could not unmarshall the data into struct")
    /\ ret.resp.status = 200

\* C4, as stated: every call of every operation hands exactly one request to
\* Client.Do before it returns, whatever the inputs and the outcome.
C4_ExactlyOneRequest == Done => Len(sent) = 1

\* C4, amended: every call hands at most one request to Client.Do: exactly one
\* when NewRequest returns a request, and none when NewRequest returns an
\* error, which the call then returns with a nil value and a nil response.
C4_OneRequestIfBuilt ==
    Done => /\ built.ok => (Len(sent) = 1 /\ dox.called)
            /\ ~built.ok => /\ Len(sent) = 0
                            /\ ~dox.called
                            /\ ret = [val |-> NilVal, resp |-> NilResp, err |-> built.err]
                            /\ built.err # NoErr

C4_Witness ==
    /\ Done /\ op = "GetBoard" /\ built.ok /\ Len(sent) = 1
    /\ dox.called /\ dox.err = ErrNet /\ ret.err = ErrNet

\* C5: when Client.Do returns an error, the operation returns that very error
\* and the response handle Client.Do returned, and sends nothing more.
C5_TransportErrorUnchanged ==
    (Done /\ dox.called /\ dox.err # NoErr)
        => (ret.err = dox.err /\ ret.resp = dox.resp /\ Len(sent) = 1)

C5_Witness ==
    /\ Done /\ op = "UserGet" /\ dox.called /\ dox.err = Err404
    /\ ret.err = Err404 /\ ret.resp.status = 404

\* C6: a successful Create operation returns a newly allocated record, not the
\* input record; the input record is unchanged and the fields of the server's
\* response are in the returned record.
C6_CreateReturnsNewRecord ==
    (Done /\ op \in CreateOps /\ ret.err = NoErr)
        => /\ ~ret.val.nil
           /\ ret.val.addr # args.ptr
           /\ heap[args.ptr] = args.in
           /\ heap[ret.val.addr].Name = args.ans.body.obj.name

C6_Witness ==
    /\ Done /\ op = "CreateBoard" /\ ret.err = NoErr
    /\ args.in.Name = <<"in">> /\ args.in.FilterID = 1
    /\ heap[ret.val.addr].Name = <<"srv">>
    /\ heap[ret.val.addr].ID = 3

\* C7: each fetch-everything operation requests maxResults=1000 for every
\* identifier passed: the query of its request has exactly one maxResults
\* parameter and its value is 1000.
C7_MaxResultsAlways1000 ==
    (Done /\ op \in FetchAllOps /\ Len(sent) = 1)
        => ParamValues(SentParams, "maxResults") = <<Lit1000>>

\* C8: DeleteBoard sends one DELETE request without a body to the board's
\* path, never returns a decoded value, and on success returns the
\* transport's response handle and a nil error.
C8_DeleteBoard ==
    (Done /\ op = "DeleteBoard")
        => /\ Len(sent) = 1
           /\ sent[1].method = "DELETE"
           /\ ~sent[1].body.present
           /\ sent[1].url = <<"rest/agile/1.0/board/">> \o Itoa(args.boardID)
           /\ ret.val.nil
           /\ args.ans.kind \in {"ok", "readfail"}
                 => (ret.err = NoErr /\ ret.resp = RespOf(args.ans))

C8_Witness ==
    /\ Done /\ op = "DeleteBoard" /\ args.boardID = 1000
    /\ args.ans.kind = "ok" /\ args.ans.body.kind = "object"
    /\ ret.err = NoErr /\ ret.resp.status = 200
    /\ sent[1].url = <<"rest/agile/1.0/board/", "1", "0", "0", "0">>

\* C9: on success GetAllBoards returns a wrapper with the response's values in
\* order and its total, startAt, maxResults and isLast; GetAllSprints and
\* GetEpicsForBoard return the sequence under "values", and the three issue
\* operations the sequence under "issues", same length and order.
C9_UnwrapPreservesSequence ==
    (Done /\ dox.called /\ ret.err = NoErr /\ args.ans.kind = "ok"
          /\ args.ans.body.kind = "object")
        => LET obj == args.ans.body.obj
           IN /\ op = "GetAllBoards" =>
                    /\ ~ret.val.nil
                    /\ heap[ret.val.addr] =
                         [MaxResults |-> obj.maxResults, StartAt |-> obj.startAt,
                          Total |-> obj.total, IsLast |-> obj.isLast,
                          Values |-> [nil |-> FALSE, elems |-> obj.values]]
              /\ op \in {"GetAllSprints", "GetEpicsForBoard"} =>
                    (~ret.val.nil /\ ret.val.elems = obj.values)
              /\ op \in {"GetIssuesForBacklog", "GetIssuesForEpic", "GetIssuesWithoutEpic"} =>
                    (~ret.val.nil /\ ret.val.elems = obj.issues)

C9_Witness ==
    /\ Done /\ op = "GetIssuesForBacklog" /\ ret.err = NoErr
    /\ args.ans.kind = "ok" /\ args.ans.body.kind = "object"
    /\ args.ans.body.obj.issues = <<2, 1>>
    /\ args.ans.body.obj.values = <<1>>
    /\ ret.val.elems = <<2, 1>>

\* C10: when encoding the options fails, GetAllBoards returns that error with
\* a nil decoded value and neither builds nor sends a request.
C10_EncodingErrorSurfaces ==
    (Done /\ op = "GetAllBoards" /\ ~args.opt.nil /\ args.encFails)
        => (ret.err = ErrQuery /\ ret.val.nil /\ ~built.ok /\ Len(sent) = 0)

====
